---- MODULE Spec2Model ----
(***************************************************************************)
(* Weekly Company Report Calculator (src/app.py): the technician registry  *)
(* held in the session state, the per-technician report builder            *)
(* export_per_tech_xlsx, and the upload / match / archive script body.     *)
(*                                                                         *)
(* Conventions of the model                                                *)
(*   - Technician names and file names are sequences of one-character      *)
(*     strings, so that str.strip and str.replace are computed.            *)
(*   - Column names and charge labels are TLA+ strings (the code only      *)
(*     compares them).                                                     *)
(*   - Every number is a fixed-point value in hundredths: 2500 is 25.0,    *)
(*     625 is 6.25.  The inputs are chosen so that every product has at    *)
(*     most two decimals, as the binary floats of the code are exact on    *)
(*     them too.                                                           *)
(*   - Python's 0-based list positions are 1-based here; editing_index 0   *)
(*     is Python's None.                                                  *)
(***************************************************************************)
EXTENDS Integers, Sequences, FiniteSets, TLC

VARIABLES employees, editing_index, uploaded, mapping, page, call, result

vars == <<employees, editing_index, uploaded, mapping, page, call, result>>

----------------------------------------------------------------------------
(* Characters and strings *)

Str_John_Doe == <<"J","o","h","n"," ","D","o","e">>
Str_Nathan_Stevens == <<"N","a","t","h","a","n"," ","S","t","e","v","e","n","s">>
Str_Spencer_Monahan == <<"S","p","e","n","c","e","r"," ","M","o","n","a","h","a","n">>
Str_Mikal_Segall == <<"M","i","k","a","l"," ","S","e","g","a","l","l">>
Str_Jonathan_Moss == <<"J","o","n","a","t","h","a","n"," ","M","o","s","s">>
Str_Bob_Rhyss == <<"B","o","b"," ","R","h","y","s","s">>
Str_Clyde_Owen == <<"C","l","y","d","e"," ","O","w","e","n">>

\* The characters the model uses, in code-point order (Python compares
\* strings by code point in sorted()).
CharOrder ==
  <<" ", "-", ".", "0", "1", "2", "3", "4", "5", "6", "7", "8", "9",
    "A", "B", "C", "D", "J", "M", "N", "O", "R", "S", "T", "Z", "_",
    "a", "b", "c", "d", "e", "g", "h", "i", "k", "l", "n", "o", "p",
    "r", "s", "t", "v", "w", "x", "y">>

Ord(c) == CHOOSE i \in 1..Len(CharOrder) : CharOrder[i] = c

\* str.isspace of one character (the model's only whitespace is the blank)
IsSpace(c) == c = " "

RECURSIVE LStrip(_)
LStrip(s) ==
  IF s = <<>> THEN <<>>
  ELSE IF IsSpace(Head(s)) THEN LStrip(Tail(s)) ELSE s

RECURSIVE RStrip(_)
RStrip(s) ==
  IF s = <<>> THEN <<>>
  ELSE IF IsSpace(s[Len(s)]) THEN RStrip(SubSeq(s, 1, Len(s) - 1)) ELSE s

\* str.strip()
Strip(s) == RStrip(LStrip(s))

\* str.replace(' ', '_')
ReplaceSpaces(s) == [i \in 1..Len(s) |-> IF s[i] = " " THEN "_" ELSE s[i]]

\* Python's < on two strings
RECURSIVE StrLess(_, _)
StrLess(a, b) ==
  IF b = <<>> THEN FALSE
  ELSE IF a = <<>> THEN TRUE
  ELSE IF Head(a) = Head(b) THEN StrLess(Tail(a), Tail(b))
  ELSE Ord(Head(a)) < Ord(Head(b))

Digits == <<"0", "1", "2", "3", "4", "5", "6", "7", "8", "9">>

IsDigit(c) == \E i \in 1..10 : Digits[i] = c

DigitVal(c) == (CHOOSE i \in 1..10 : Digits[i] = c) - 1

\* str(n) of a non-negative int
RECURSIVE IntStr(_)
IntStr(n) ==
  IF n < 10 THEN <<Digits[n + 1]>>
  ELSE IntStr(n \div 10) \o <<Digits[(n % 10) + 1]>>

\* str(x) of a non-negative float with at most two decimals
FloatStr(v) ==
  IntStr(v \div 100) \o <<".">> \o
  (IF v % 100 = 0 THEN <<"0">>
   ELSE IF v % 10 = 0 THEN <<Digits[((v % 100) \div 10) + 1]>>
   ELSE <<Digits[((v % 100) \div 10) + 1], Digits[(v % 10) + 1]>>)

\* the value of a string of decimal digits
RECURSIVE DigitsVal(_)
DigitsVal(s) ==
  IF s = <<>> THEN 0
  ELSE DigitsVal(SubSeq(s, 1, Len(s) - 1)) * 10 + DigitVal(s[Len(s)])

----------------------------------------------------------------------------
(* Cell values of a table and of a worksheet *)

\* k: kind; n: the number (hundredths) or the day; m: the time of day;
\* t: the text; s: a column name or label
Cell(k, n, m, t, s) == [k |-> k, n |-> n, m |-> m, t |-> t, s |-> s]

Num(v) == Cell("num", v, 0, <<>>, "")
Txt(t) == Cell("txt", 0, 0, t, "")
DateTime(d, tm) == Cell("date", d, tm, <<>>, "")
NaN == Cell("nan", 0, 0, <<>>, "")
None == Cell("none", 0, 0, <<>>, "")
Label(s) == Cell("label", 0, 0, <<>>, s)

\* pd.to_numeric(x, errors="coerce") of one cell: a number, or NaN
ToNumeric(c) ==
  IF c.k = "num" THEN c
  ELSE IF c.k = "txt" /\ c.t # <<>> /\ \A i \in 1..Len(c.t) : IsDigit(c.t[i])
    THEN Num(DigitsVal(c.t) * 100)
  ELSE NaN

\* .fillna(0.0)
FillNa(c) == IF c.k = "nan" THEN Num(0) ELSE c

\* pd.to_datetime(x, errors="coerce").dt.date of one cell: a calendar day, or
\* NaT (as NaN).  A number is a count of nanoseconds from the epoch, day 0.
ToDate(c) ==
  IF c.k = "date" THEN DateTime(c.n, 0)
  ELSE IF c.k = "num" THEN DateTime(0, 0)
  ELSE NaN

\* .astype(str) of one cell
AsStr(c) ==
  IF c.k = "txt" THEN c.t
  ELSE IF c.k = "num" THEN FloatStr(c.n)
  ELSE IF c.k = "date" THEN <<"D">> \o IntStr(c.n) \o <<"T">> \o IntStr(c.m)
  ELSE <<"n", "a", "n">>

\* isinstance(val, (int, float)) of a worksheet cell
IsNumber(c) == c.k = "num"

\* fixed-point product and quotient of two numbers in hundredths
FMul(a, b) == (a * b) \div 100
FDiv(a, b) == (a * 100) \div b

----------------------------------------------------------------------------
(* The technician registry: st.session_state.employees *)

DefaultRate == 2500

Profile(name, rate_pct, truck, meter) ==
  [name |-> name, rate_pct |-> rate_pct, truck |-> truck, meter |-> meter]

PREPOP_TECHS ==
  << Profile(Str_John_Doe, DefaultRate, FALSE, FALSE),
     Profile(Str_Nathan_Stevens, DefaultRate, FALSE, FALSE),
     Profile(Str_Spencer_Monahan, DefaultRate, FALSE, FALSE),
     Profile(Str_Mikal_Segall, DefaultRate, FALSE, FALSE),
     Profile(Str_Jonathan_Moss, DefaultRate, FALSE, FALSE),
     Profile(Str_Bob_Rhyss, DefaultRate, FALSE, FALSE),
     Profile(Str_Clyde_Owen, DefaultRate, FALSE, FALSE) >>

\* get_employee_by_name: the position of the first entry with that name,
\* 0 for None
get_employee_by_name(emps, name) ==
  IF \E i \in 1..Len(emps) : emps[i].name = name
  THEN CHOOSE i \in 1..Len(emps) :
         /\ emps[i].name = name
         /\ \A j \in 1..(i - 1) : emps[j].name # name
  ELSE 0

\* ensure_employee with the lookup made on the name as typed, not trimmed
ensure_employee_LookupUntrimmed(emps, name, rate_pct, truck, meter) ==
  IF Strip(name) = <<>> THEN emps
  ELSE IF get_employee_by_name(emps, name) = 0
    THEN Append(emps, Profile(Strip(name), rate_pct, truck, meter))
  ELSE emps

\* ensure_employee overwriting the fields of a profile that already exists
ensure_employee_Upsert(emps, name, rate_pct, truck, meter) ==
  IF Strip(name) = <<>> THEN emps
  ELSE IF get_employee_by_name(emps, Strip(name)) = 0
    THEN Append(emps, Profile(Strip(name), rate_pct, truck, meter))
  ELSE [emps EXCEPT ![get_employee_by_name(emps, Strip(name))] =
          Profile(Strip(name), rate_pct, truck, meter)]

\* ensure_employee: the employees list after the call
ensure_employee(emps, name, rate_pct, truck, meter) ==
  IF Strip(name) = <<>> THEN emps
  ELSE IF get_employee_by_name(emps, Strip(name)) = 0
    THEN Append(emps, Profile(Strip(name), rate_pct, truck, meter))
  ELSE emps

\* the Save branch of the edit form: e is employees[i]
save_edit(emps, i, new_rate, new_truck, new_meter) ==
  [emps EXCEPT ![i] = [@ EXCEPT !.rate_pct = new_rate,
                                !.truck = new_truck,
                                !.meter = new_meter]]

----------------------------------------------------------------------------
(* Data frames: cols is the list of column names, rows the list of rows,   *)
(* each row the list of its cells in the order of cols.  Column names may  *)
(* repeat after a selection d[ordered].                                    *)

Frame(cols, rows) == [cols |-> cols, rows |-> rows]

HasCol(d, c) == \E i \in 1..Len(d.cols) : d.cols[i] = c

\* the positions of the columns named c
ColPositions(d, c) == {i \in 1..Len(d.cols) : d.cols[i] = c}

ColIndex(d, c) == CHOOSE i \in ColPositions(d, c) : TRUE

\* d[c] of a frame in which c names one column: the list of its cells
Column(d, c) == [r \in 1..Len(d.rows) |-> d.rows[r][ColIndex(d, c)]]

\* d[c] = vals: overwrite the column in place when it exists, append it
\* as the last column otherwise
SetColumn(d, c, vals) ==
  IF HasCol(d, c)
  THEN Frame(d.cols,
             [r \in 1..Len(d.rows) |->
                [d.rows[r] EXCEPT ![ColIndex(d, c)] = vals[r]]])
  ELSE Frame(Append(d.cols, c),
             [r \in 1..Len(d.rows) |-> Append(d.rows[r], vals[r])])

\* d[ordered]: one output column per listed name; a name that labels one
\* column of d selects it
SelectColumns(d, ordered) ==
  Frame(ordered,
        [r \in 1..Len(d.rows) |->
           [i \in 1..Len(ordered) |-> d.rows[r][ColIndex(d, ordered[i])]]])

InSeq(x, s) == \E i \in 1..Len(s) : s[i] = x

RECURSIVE SumSeq(_)
SumSeq(s) == IF s = <<>> THEN 0 ELSE Head(s) + SumSeq(Tail(s))

Min(a, b) == IF a < b THEN a ELSE b

\* [None] * k
Nones(k) == [i \in 1..k |-> None]

----------------------------------------------------------------------------
(* export_per_tech_xlsx: the report builder *)

Hundred == 10000
TruckPerDay == 5000
TruckDayCap == 3
MeterFee == 2500
PenguinFee == 625
TitleMax == 31

\* line 92: d["Rate (%)"] = float(tech_info["rate_pct"])
WithRate(df_tech, tech_info) ==
  SetColumn(df_tech, "Rate (%)",
            [r \in 1..Len(df_tech.rows) |-> Num(tech_info.rate_pct)])

\* lines 93-94: base is read from the job fee column of d, which already
\* holds the rate column; Amount = base * (Rate (%) / 100.0)
WithAmount(d, jobfee_col) ==
  SetColumn(d, "Amount",
            [r \in 1..Len(d.rows) |->
               Num(FMul(FillNa(ToNumeric(Column(d, jobfee_col)[r])).n,
                        FDiv(Column(d, "Rate (%)")[r].n, Hundred)))])

\* lines 100-107: the order of the output columns
OrderedColumns(cols, date_col, tech_col) ==
  (IF InSeq(date_col, cols) THEN <<date_col>> ELSE <<>>)
  \o (IF InSeq(tech_col, cols) /\ tech_col # date_col THEN <<tech_col>> ELSE <<>>)
  \o SelectSeq(cols, LAMBDA c : c \notin {date_col, tech_col, "Rate (%)", "Amount"})
  \o <<"Rate (%)", "Amount">>

\* lines 110-111: the header row and the data rows of the sheet
SheetRows(d) == <<[i \in 1..Len(d.cols) |-> Label(d.cols[i])]>> \o d.rows

\* line 120: the distinct calendar days of the date column, NaT dropped
UniqueDays(d, date_col) ==
  {ToDate(Column(d, date_col)[r]) : r \in 1..Len(d.rows)} \ {NaN}

\* the truck fee without the cap of three days
TruckFee_NoCap(ndays) == ndays * TruckPerDay

\* line 121
TruckFee(ndays) == Min(TruckDayCap, ndays) * TruckPerDay

\* a charge line or the total line: the label, blanks, the amount
ChargeRow(label, last_col_idx, amount) ==
  <<Label(label)>> \o Nones(last_col_idx - 2) \o <<Num(amount)>>

\* lines 119-124: the truck charge line, when there is one
TruckRows(tech_info, truck_fee, last_col_idx) ==
  IF tech_info.truck /\ truck_fee > 0
  THEN <<ChargeRow("Truck Charge", last_col_idx, truck_fee)>>
  ELSE <<>>

\* the meter fee line put under the truck flag
MeterRows_OnTruckFlag(tech_info, last_col_idx) ==
  IF tech_info.truck
  THEN <<ChargeRow("Meter Fee", last_col_idx, MeterFee)>>
  ELSE <<>>

\* lines 126-127: the meter fee line, when there is one
MeterRows(tech_info, last_col_idx) ==
  IF tech_info.meter
  THEN <<ChargeRow("Meter Fee", last_col_idx, MeterFee)>>
  ELSE <<>>

\* line 130: the fixed fee line
PenguinRows(last_col_idx) ==
  <<ChargeRow("Penguin Data Fee", last_col_idx, PenguinFee)>>

\* charges_total with the meter fee left out of the sum
ChargesTotal_NoMeter(tech_info, truck_fee) ==
  (IF tech_info.truck /\ truck_fee > 0 THEN truck_fee ELSE 0) + PenguinFee

\* lines 117, 124, 128, 131: charges_total after the three blocks
ChargesTotal(tech_info, truck_fee) ==
  (IF tech_info.truck /\ truck_fee > 0 THEN truck_fee ELSE 0)
  + (IF tech_info.meter THEN MeterFee ELSE 0)
  + PenguinFee

\* lines 133-138: the sum of the numeric cells of the amount column over the
\* data rows 2 .. data_end_row
DataAmountSum(ws, data_end_row, amount_col_idx) ==
  SumSeq([r \in 1..(data_end_row - 1) |->
            IF IsNumber(ws[r + 1][amount_col_idx])
            THEN ws[r + 1][amount_col_idx].n ELSE 0])

\* line 120: pd.to_datetime is handed d[date_col], a frame instead of a
\* column when date_col names two columns of d, and raises ValueError
DateColumnRaises(d, date_col) == Cardinality(ColPositions(d, date_col)) # 1

Raised == [raised |-> TRUE, title |-> <<>>, ws |-> <<>>, bold |-> {}]

\* lines 98, 140-156: the total row is appended to the sheet ws, which holds
\* the header, the data rows and the charge lines
Workbook(tech_info, ws, total, last_col_idx) ==
  [raised |-> FALSE,
   title |-> SubSeq(tech_info.name, 1, Min(Len(tech_info.name), TitleMax)),
   ws |-> Append(ws, ChargeRow("Total:", last_col_idx, total)),
   bold |-> {1, Len(ws) + 1}]

\* lines 113-141, truck_fee being the fee of line 121 (read only for a
\* technician on the truck charge)
WithCharges(d, tech_info, truck_fee, last_col_idx) ==
  Workbook(tech_info,
           SheetRows(d) \o TruckRows(tech_info, truck_fee, last_col_idx)
                        \o MeterRows(tech_info, last_col_idx)
                        \o PenguinRows(last_col_idx),
           DataAmountSum(SheetRows(d), 1 + Len(d.rows), last_col_idx)
             + ChargesTotal(tech_info, truck_fee),
           last_col_idx)

\* lines 108-156 on the frame d = d[ordered]; last_col_idx is ws.max_column
ExportOrdered(d, tech_info, date_col) ==
  IF tech_info.truck /\ DateColumnRaises(d, date_col)
  THEN Raised
  ELSE WithCharges(d, tech_info,
                   IF tech_info.truck
                   THEN TruckFee(Cardinality(UniqueDays(d, date_col))) ELSE 0,
                   Len(d.cols))

\* lines 100-156 on the frame d that holds the two computed columns
ExportComputed(d, tech_info, date_col, tech_col) ==
  ExportOrdered(SelectColumns(d, OrderedColumns(d.cols, date_col, tech_col)),
                tech_info, date_col)

\* The workbook the builder returns (its sheet title, the rows of the sheet,
\* the rows in bold), or Raised when it raises.
export_per_tech_xlsx(df_tech, tech_info, date_col, tech_col, jobfee_col) ==
  ExportComputed(WithAmount(WithRate(df_tech, tech_info), jobfee_col),
                 tech_info, date_col, tech_col)

----------------------------------------------------------------------------
(* The script body below the sidebar: upload, column mapping, matching,    *)
(* the archive                                                             *)

MinColumns == 3

TechColumnGuesses == <<"Technician", "Tech", "Worker", "Employee", "Name">>

\* datetime.now().date() rendered by the f-string, the same in one run
Today == <<"2", "0", "2", "6", "-", "1", "1", "-", "0", "2">>

Dot_xlsx == <<".", "x", "l", "s", "x">>

NoFrame == Frame(<<>>, <<>>)

\* the value of st.file_uploader: nothing, a file pd.read_excel cannot
\* read, or a file it reads as the frame df
NoUpload == [present |-> FALSE, readable |-> FALSE, df |-> NoFrame]
Unreadable == [present |-> TRUE, readable |-> FALSE, df |-> NoFrame]
Readable(df) == [present |-> TRUE, readable |-> TRUE, df |-> df]

\* the values of the three select boxes; NoMapping while they are not shown
Mapping(d, t, j) == [date_col |-> d, tech_col |-> t, jobfee_col |-> j]
NoMapping == Mapping("", "", "")

\* lines 243-245: the defaults of the select boxes
DefaultMapping(cols) ==
  LET hits == {i \in 1..Len(TechColumnGuesses) : InSeq(TechColumnGuesses[i], cols)}
      guess_tech == IF hits = {} THEN cols[2]
                    ELSE TechColumnGuesses[CHOOSE i \in hits : \A j \in hits : i <= j]
  IN  Mapping(cols[1], guess_tech, cols[Len(cols)])

\* lines 227-240: the select boxes are reached
MappingShown(up) == up.present /\ up.readable /\ Len(up.df.cols) >= MinColumns

\* sorted() of a set of strings
RECURSIVE SortedStrs(_)
SortedStrs(S) ==
  IF S = {} THEN <<>>
  ELSE LET least == CHOOSE a \in S : \A b \in S \ {a} : StrLess(a, b)
       IN  <<least>> \o SortedStrs(S \ {least})

\* line 257
TechsInFile(df, tech_col) ==
  SortedStrs({AsStr(Column(df, tech_col)[r]) :
                r \in {q \in 1..Len(df.rows) : Column(df, tech_col)[q].k # "nan"}})

\* lines 258-259
Matched(emps, df, tech_col) ==
  SelectSeq(TechsInFile(df, tech_col),
            LAMBDA t : \E i \in 1..Len(emps) : emps[i].name = t)

\* line 273: df[df[tech_col].astype(str) == t]
TechRows(df, tech_col, t) ==
  Frame(df.cols,
        SelectSeq(df.rows, LAMBDA row : AsStr(row[ColIndex(df, tech_col)]) = t))

\* line 278
FileName(t) == ReplaceSpaces(t) \o <<"_">> \o Today \o Dot_xlsx

\* lines 277-280 for technician t, whose report out_bytes is: the builder
\* raised and the run ends, or the entry is written
ArchiveEntry(acc, t, out_bytes) ==
  IF out_bytes.raised
  THEN [acc EXCEPT !.raised = TRUE]
  ELSE [acc EXCEPT !.z = Append(@, [name |-> FileName(t), data |-> out_bytes]),
                   !.built = Append(@, t),
                   !.export_count = @ + 1]

\* lines 273-280: one pass of the loop body for technician t
ArchiveStep(emps, map, acc, t, tech_rows) ==
  IF tech_rows.rows = <<>> THEN acc
  ELSE ArchiveEntry(acc, t,
         export_per_tech_xlsx(tech_rows, emps[get_employee_by_name(emps, t)],
                              map.date_col, map.tech_col, map.jobfee_col))

\* lines 272-280: the loop over matched; z is the list of the entries
\* written, built the technicians whose report was built
RECURSIVE ArchiveLoop(_, _, _, _, _)
ArchiveLoop(emps, df, map, matched, acc) ==
  IF matched = <<>> \/ acc.raised THEN acc
  ELSE ArchiveLoop(emps, df, map, Tail(matched),
         ArchiveStep(emps, map, acc, Head(matched),
                     TechRows(df, map.tech_col, Head(matched))))

\* What one run of the script shows: outcome is "idle" (no upload),
\* "read_error" and "shape_error" (st.error, st.stop), "no_match"
\* (st.warning, st.stop), "exception" (the builder raised: the run ends
\* before st.download_button) or "download"; archive is the content of the
\* ZIP offered for download, export_count the count st.success reports.
PageOf(outcome, matched, built, archive, export_count) ==
  [outcome |-> outcome, matched |-> matched, built |-> built,
   archive |-> archive, export_count |-> export_count]

\* the page without the halt on an empty list of matched technicians
PageAfter_NoHalt(matched, acc) ==
  IF acc.raised THEN PageOf("exception", matched, acc.built, <<>>, 0)
  ELSE PageOf("download", matched, acc.built, acc.z, acc.export_count)

\* lines 261-288: the page for the list matched and the loop's result acc
PageAfter(matched, acc) ==
  IF matched = <<>> THEN PageOf("no_match", <<>>, <<>>, <<>>, 0)
  ELSE IF acc.raised THEN PageOf("exception", matched, acc.built, <<>>, 0)
  ELSE PageOf("download", matched, acc.built, acc.z, acc.export_count)

NoEntries == [z |-> <<>>, built |-> <<>>, export_count |-> 0, raised |-> FALSE]

\* lines 256-288, the select boxes shown
Dispatch(emps, up, map) ==
  PageAfter(Matched(emps, up.df, map.tech_col),
            ArchiveLoop(emps, up.df, map, Matched(emps, up.df, map.tech_col),
                        NoEntries))

\* lines 225-290
Render(emps, up, map) ==
  IF ~up.present THEN PageOf("idle", <<>>, <<>>, <<>>, 0)
  ELSE IF ~up.readable THEN PageOf("read_error", <<>>, <<>>, <<>>, 0)
  ELSE IF Len(up.df.cols) < MinColumns THEN PageOf("shape_error", <<>>, <<>>, <<>>, 0)
  ELSE Dispatch(emps, up, map)

----------------------------------------------------------------------------
(* State and interactions.  Every interaction runs the script once more,   *)
(* so page is what the script shows for the state the interaction leaves.  *)

NoCall == [df_tech |-> NoFrame, tech_info |-> Profile(<<>>, 0, FALSE, FALSE),
           map |-> NoMapping]

\* result: whether the builder has been applied to call, and what it returned
NoResult == [done |-> FALSE, out |-> Raised]
Returned(out) == [done |-> TRUE, out |-> out]

\* init_state on the first run of a session, no file uploaded
Init ==
  /\ employees = PREPOP_TECHS
  /\ editing_index = 0
  /\ uploaded = NoUpload
  /\ mapping = NoMapping
  /\ page = Render(PREPOP_TECHS, NoUpload, NoMapping)
  /\ call = NoCall
  /\ result = NoResult

\* the pen button of row i
ClickEdit(i) ==
  /\ i \in 1..Len(employees)
  /\ editing_index # i
  /\ editing_index' = i
  /\ UNCHANGED <<employees, uploaded, mapping, page, call, result>>

\* Save of the edit form of row editing_index
Save(new_rate, new_truck, new_meter) ==
  /\ editing_index \in 1..Len(employees)
  /\ employees' = save_edit(employees, editing_index, new_rate, new_truck, new_meter)
  /\ editing_index' = 0
  /\ page' = Render(employees', uploaded, mapping)
  /\ UNCHANGED <<uploaded, mapping, call, result>>

\* Cancel of the edit form
Cancel ==
  /\ editing_index \in 1..Len(employees)
  /\ editing_index' = 0
  /\ UNCHANGED <<employees, uploaded, mapping, page, call, result>>

\* Add of the add-technician form
Add(new_name, new_rate_pct, new_truck, new_meter) ==
  /\ employees' = IF Strip(new_name) # <<>>
                  THEN ensure_employee(employees, new_name, new_rate_pct,
                                       new_truck, new_meter)
                  ELSE employees
  /\ page' = Render(employees', uploaded, mapping)
  /\ UNCHANGED <<editing_index, uploaded, mapping, call, result>>

\* a file is chosen in the uploader; the select boxes keep their values when
\* they are shown again with the same options, and start at the defaults
\* otherwise
Upload(file) ==
  /\ file.present
  /\ uploaded' = file
  /\ mapping' = IF ~MappingShown(file) THEN NoMapping
                ELSE IF MappingShown(uploaded) /\ uploaded.df.cols = file.df.cols
                THEN mapping
                ELSE DefaultMapping(file.df.cols)
  /\ page' = Render(employees, uploaded', mapping')
  /\ UNCHANGED <<employees, editing_index, call, result>>

\* the file is removed from the uploader
RemoveUpload ==
  /\ uploaded.present
  /\ uploaded' = NoUpload
  /\ mapping' = NoMapping
  /\ page' = Render(employees, uploaded', mapping')
  /\ UNCHANGED <<employees, editing_index, call, result>>

\* one of the select boxes is changed
SelectMapping(d, t, j) ==
  /\ MappingShown(uploaded)
  /\ InSeq(d, uploaded.df.cols) /\ InSeq(t, uploaded.df.cols) /\ InSeq(j, uploaded.df.cols)
  /\ mapping' = Mapping(d, t, j)
  /\ page' = Render(employees, uploaded, mapping')
  /\ UNCHANGED <<employees, editing_index, uploaded, call, result>>

\* the builder applied to the inputs of call
Build ==
  /\ ~result.done
  /\ call # NoCall
  /\ result' = Returned(export_per_tech_xlsx(call.df_tech, call.tech_info,
                          call.map.date_col, call.map.tech_col,
                          call.map.jobfee_col))
  /\ UNCHANGED <<employees, editing_index, uploaded, mapping, page, call>>

----------------------------------------------------------------------------
(* Inputs *)

\* the sequences over S of length at most n
SeqsUpTo(S, n) == UNION {[1..k -> S] : k \in 0..n}

Str_John_UDoe == <<"J","o","h","n","_","D","o","e">>
Str_Ann == <<"A","n","n">>
Str_x == <<"x">>
Str_50 == <<"5","0">>

Rates == {DefaultRate, 4000}

ProfileInputs == [rate_pct : Rates, truck : BOOLEAN, meter : BOOLEAN]

(* the registry alone *)

NameInputs ==
  { <<>>, <<" ">>, Str_John_Doe, <<" ">> \o Str_John_Doe \o <<" ">>,
    Str_John_UDoe, Str_Ann, Str_Ann \o <<" ">> }

\* the rows whose pen button is pressed: the first one and the added ones
EditRows(emps) == {1} \cup {i \in 1..Len(emps) : i > Len(PREPOP_TECHS)}

NextRegistry ==
  \/ \E i \in EditRows(employees) : ClickEdit(i)
  \/ \E p \in ProfileInputs : Save(p.rate_pct, p.truck, p.meter)
  \/ Cancel
  \/ \E n \in NameInputs, p \in ProfileInputs : Add(n, p.rate_pct, p.truck, p.meter)

SpecRegistry == Init /\ [][NextRegistry]_vars

(* the whole page *)

MaxFileRows == 2

PageProfiles ==
  { [rate_pct |-> DefaultRate, truck |-> FALSE, meter |-> FALSE],
    [rate_pct |-> 4000, truck |-> TRUE, meter |-> TRUE] }

PageNames == {Str_John_UDoe, <<" ">> \o Str_John_Doe}

\* the technician cells of an uploaded file: two names that differ in a blank
\* and an underscore (the second is in the registry once it is added), an
\* empty cell
FileTechCells == {Txt(Str_John_Doe), Txt(Str_John_UDoe), NaN}

FileColumns == <<"Date", "Tech", "Amount">>

FileRows == {<<DateTime(1, 0), tc, Num(10000)>> : tc \in FileTechCells}

Files ==
  {Unreadable, Readable(Frame(<<"Date", "Tech">>, <<>>))}
  \cup {Readable(Frame(FileColumns, rows)) : rows \in SeqsUpTo(FileRows, MaxFileRows)}

FileColumnSet == {FileColumns[i] : i \in 1..Len(FileColumns)}

Next ==
  \/ \E i \in EditRows(employees) : ClickEdit(i)
  \/ \E p \in PageProfiles : Save(p.rate_pct, p.truck, p.meter)
  \/ Cancel
  \/ \E n \in PageNames, p \in PageProfiles : Add(n, p.rate_pct, p.truck, p.meter)
  \/ \E f \in Files : Upload(f)
  \/ RemoveUpload
  \/ \E d \in FileColumnSet, t \in FileColumnSet :
       SelectMapping(d, t, mapping.jobfee_col)

Spec == Init /\ [][Next]_vars

(* the builder alone *)

MaxRows == 2
MaxTruckRows == 4
MaxDay == 4

FeeCells == {Num(10000), Txt(Str_50), Txt(Str_x), NaN}

\* a table with a clean header and one whose columns are named like the two
\* computed columns; the value columns of a row hold its fee cell
BuilderHeaders == { <<"Date", "Tech", "Fee">>, <<"Date", "Tech", "Rate (%)", "Amount">> }

BuilderRow(cols, date_cell, fee_cell) ==
  [i \in 1..Len(cols) |->
     IF cols[i] = "Date" THEN date_cell
     ELSE IF cols[i] = "Tech" THEN Txt(Str_Ann)
     ELSE fee_cell]

ColumnSet(cols) == {cols[i] : i \in 1..Len(cols)}

\* every choice of the three columns on small tables
LayoutCalls ==
  { [df_tech |-> Frame(cols, [r \in 1..Len(fees) |->
                                BuilderRow(cols, DateTime(1, 0), fees[r])]),
     tech_info |-> Profile(Str_Ann, p.rate_pct, p.truck, p.meter),
     map |-> Mapping(d, t, j)] :
      cols \in BuilderHeaders, fees \in SeqsUpTo(FeeCells, MaxRows),
      p \in [rate_pct : {DefaultRate}, truck : BOOLEAN, meter : BOOLEAN],
      d \in {"Date", "Tech", "Fee", "Rate (%)", "Amount"},
      t \in {"Date", "Tech", "Fee", "Rate (%)", "Amount"},
      j \in {"Date", "Tech", "Fee", "Rate (%)", "Amount"} }

DateCells ==
  {DateTime(day, 0) : day \in 1..MaxDay} \cup {DateTime(1, 1), Txt(Str_x)}

\* longer tables under the default mapping, the dates varied
TruckCalls ==
  { [df_tech |-> Frame(<<"Date", "Tech", "Fee">>,
                       [r \in 1..Len(dates) |->
                          BuilderRow(<<"Date", "Tech", "Fee">>, dates[r], Num(10000))]),
     tech_info |-> Profile(Str_Ann, 4000, truck, meter),
     map |-> DefaultMapping(<<"Date", "Tech", "Fee">>)] :
      dates \in SeqsUpTo(DateCells, MaxTruckRows),
      truck \in BOOLEAN, meter \in {FALSE} }

BuilderCalls ==
  {c \in LayoutCalls :
     /\ InSeq(c.map.date_col, c.df_tech.cols)
     /\ InSeq(c.map.tech_col, c.df_tech.cols)
     /\ InSeq(c.map.jobfee_col, c.df_tech.cols)}
  \cup TruckCalls

InitBuilder ==
  /\ employees = PREPOP_TECHS
  /\ editing_index = 0
  /\ uploaded = NoUpload
  /\ mapping = NoMapping
  /\ page = Render(PREPOP_TECHS, NoUpload, NoMapping)
  /\ call \in BuilderCalls
  /\ result = NoResult

NextBuilder == Build

SpecBuilder == InitBuilder /\ [][NextBuilder]_vars

----------------------------------------------------------------------------
(* Properties of the registry, under SpecRegistry *)

RegistryNames(emps) == {emps[i].name : i \in 1..Len(emps)}

\* C1: the registry holds at most one profile per name: no two entries of
\* the employees list have equal names.
C1_OneProfilePerName ==
  \A i \in 1..Len(employees), j \in 1..Len(employees) :
    i # j => employees[i].name # employees[j].name

\* a technician has been added and a pre-populated one edited
C1_Witness ==
  /\ Len(employees) > Len(PREPOP_TECHS)
  /\ employees[1] # PREPOP_TECHS[1]
  /\ employees[1].name = PREPOP_TECHS[1].name

\* C2: ensure_employee is first-writer-wins.  For a name whose trimmed form
\* has a profile, the call leaves the registry as it is, whatever the other
\* values; for a new non-blank name, a second call with the same name and
\* other values changes nothing after the first: the stored profile carries
\* the first call's values and the name is there once.
C2_EnsureFirstWriterWins ==
  \A n \in NameInputs, p \in ProfileInputs, q \in ProfileInputs :
    LET once == ensure_employee(employees, n, p.rate_pct, p.truck, p.meter)
        twice == ensure_employee(once, n, q.rate_pct, q.truck, q.meter)
    IN  /\ Strip(n) \in RegistryNames(employees) => once = employees
        /\ twice = once
        /\ (Strip(n) # <<>> /\ Strip(n) \notin RegistryNames(employees)) =>
             /\ Cardinality({i \in 1..Len(twice) : twice[i].name = Strip(n)}) = 1
             /\ \E i \in 1..Len(twice) :
                  twice[i] = Profile(Strip(n), p.rate_pct, p.truck, p.meter)

\* a name was added with values other than the defaults, and the form can
\* submit the same name, untrimmed, with other values
C2_Witness ==
  /\ Len(employees) > Len(PREPOP_TECHS)
  /\ employees[Len(employees)].name = Str_Ann
  /\ employees[Len(employees)].truck
  /\ \E n \in NameInputs : n # Str_Ann /\ Strip(n) = Str_Ann

----------------------------------------------------------------------------
(* Properties of the report builder, under SpecBuilder *)

Built == result.done /\ ~result.out.raised

Sheet == result.out.ws

\* the number of rows handed to the builder
NRows == Len(call.df_tech.rows)

\* the rows of the sheet whose first cell is the label
LinesLabelled(label) == {r \in 1..Len(Sheet) : Sheet[r][1] = Label(label)}

\* the last cell of row r of the sheet
LastCell(r) == Sheet[r][Len(Sheet[r])]

RECURSIVE SumOver(_, _)
SumOver(f, S) ==
  IF S = {} THEN 0
  ELSE LET x == CHOOSE y \in S : TRUE IN f[x] + SumOver(f, S \ {x})

LastAmounts == [r \in 1..Len(Sheet) |-> LastCell(r).n]

DataLines == 2..(NRows + 1)

ChargeLines == (NRows + 2)..(Len(Sheet) - 1)

\* C3: the amount of the total row is the sum of the Amount values of the
\* job rows plus the sum of the amounts of the charge lines that are in the
\* report (truck, meter, fixed fee), and nothing else.
C3_TotalIsRowsPlusCharges ==
  Built =>
    /\ Len(Sheet) >= NRows + 3
    /\ Sheet[Len(Sheet)][1] = Label("Total:")
    /\ \A r \in ChargeLines :
         Sheet[r][1] \in {Label("Truck Charge"), Label("Meter Fee"),
                          Label("Penguin Data Fee")}
    /\ LastCell(Len(Sheet)) =
         Num(SumOver(LastAmounts, DataLines) + SumOver(LastAmounts, ChargeLines))

\* a report of two job rows with all three charge lines
C3_Witness ==
  /\ Built
  /\ NRows = 2
  /\ Len(Sheet) = NRows + 5
  /\ LastCell(2).n > 0 /\ LastCell(3).n > 0

\* the distinct calendar days among the rows handed to the builder, the
\* cells that are no date left out
DaysOfCall ==
  Cardinality({ToDate(Column(call.df_tech, call.map.date_col)[r]) :
                 r \in 1..NRows} \ {NaN})

\* C4: with the truck flag set the truck charge is 50 * min(3, d), d the
\* number of distinct calendar days of the rows, unparseable dates left out;
\* with d = 0 there is no truck line and the total leaves it out; with the
\* flag unset there is never a truck line.
C4_TruckCharge ==
  Built =>
    /\ (call.tech_info.truck /\ DaysOfCall > 0) =>
         /\ Cardinality(LinesLabelled("Truck Charge")) = 1
         /\ \A r \in LinesLabelled("Truck Charge") :
              LastCell(r) = Num(5000 * (IF DaysOfCall < 3 THEN DaysOfCall ELSE 3))
    /\ (~call.tech_info.truck \/ DaysOfCall = 0) =>
         /\ LinesLabelled("Truck Charge") = {}
         /\ LastCell(Len(Sheet)).n =
              SumOver(LastAmounts, DataLines)
              + (IF call.tech_info.meter THEN 2500 ELSE 0) + 625

\* rows on four distinct days: the charge is capped at 150
C4_Witness ==
  /\ Built
  /\ call.tech_info.truck
  /\ DaysOfCall = 4
  /\ \E r \in LinesLabelled("Truck Charge") : LastCell(r) = Num(15000)

\* C6: a meter fee line is in the report exactly when the meter flag is set,
\* and its amount is 25.0; the fixed fee line of 6.25 is in every report
\* exactly once.
C6_MeterAndFixedFee ==
  Built =>
    /\ Cardinality(LinesLabelled("Meter Fee")) = (IF call.tech_info.meter THEN 1 ELSE 0)
    /\ \A r \in LinesLabelled("Meter Fee") : LastCell(r) = Num(2500)
    /\ Cardinality(LinesLabelled("Penguin Data Fee")) = 1
    /\ \A r \in LinesLabelled("Penguin Data Fee") : LastCell(r) = Num(625)

\* a report with the meter line and without the truck line
C6_Witness ==
  /\ Built
  /\ call.tech_info.meter /\ ~call.tech_info.truck
  /\ NRows > 0
  /\ LinesLabelled("Meter Fee") # {}

\* the job fee of row r as handed to the builder, non-numeric and missing
\* values counted as 0
FeeOfCall(r) == FillNa(ToNumeric(Column(call.df_tech, call.map.jobfee_col)[r])).n

\* C5: for every row and every choice of the three columns the report keeps
\* the row, and its Amount is numeric(job fee) * rate_pct / 100, a
\* non-numeric or missing job fee counting as 0; the number of data rows is
\* the number of rows handed in.
C5_AmountOfEveryRow ==
  Built =>
    /\ Len(Sheet) >= NRows + 3
    /\ Cardinality({r \in 2..Len(Sheet) : Sheet[r][1].k # "label"}) = NRows
    /\ \A r \in 1..NRows :
         LastCell(r + 1) = Num((FeeOfCall(r) * call.tech_info.rate_pct) \div 10000)

HeaderNames == [i \in 1..Len(Sheet[1]) |-> Sheet[1][i].s]

NoDuplicates(seq) == \A i \in 1..Len(seq), j \in 1..Len(seq) : i # j => seq[i] # seq[j]

\* the order the columns are to have: the date column, the technician
\* column, the other columns of the table in their order (a column of the
\* table named like a computed column is that computed column), Rate (%),
\* Amount
ColumnsOfCall ==
  <<call.map.date_col>>
  \o (IF call.map.tech_col = call.map.date_col THEN <<>> ELSE <<call.map.tech_col>>)
  \o SelectSeq(call.df_tech.cols,
       LAMBDA c : c \notin {call.map.date_col, call.map.tech_col, "Rate (%)", "Amount"})
  \o <<"Rate (%)", "Amount">>

\* C9: for every table and every choice of the three columns the output
\* columns are the date column, the technician column, every other column
\* once in the original order, Rate (%), Amount; no column is there twice;
\* every charge line and the total row hold a label in the first column, the
\* amount in the Amount column and blanks between.
C9_ColumnLayout ==
  Built =>
    /\ HeaderNames = ColumnsOfCall
    /\ HeaderNames[Len(HeaderNames)] = "Amount"
    /\ HeaderNames[Len(HeaderNames) - 1] = "Rate (%)"
    /\ NoDuplicates(HeaderNames)
    /\ \A r \in (NRows + 2)..Len(Sheet) :
         /\ Len(Sheet[r]) = Len(HeaderNames)
         /\ Sheet[r][1].k = "label"
         /\ LastCell(r).k = "num"
         /\ \A i \in 2..(Len(Sheet[r]) - 1) : Sheet[r][i] = None

----------------------------------------------------------------------------
(* Properties of the page, under Spec *)

\* the distinct technician names of the chosen column of the uploaded file
NamesInFile ==
  {AsStr(Column(uploaded.df, mapping.tech_col)[r]) :
     r \in {q \in 1..Len(uploaded.df.rows) :
              Column(uploaded.df, mapping.tech_col)[q].k # "nan"}}

SeqSet(seq) == {seq[i] : i \in 1..Len(seq)}

\* C7: the technicians for which a report is built are exactly the names
\* that are both in the chosen technician column and in the registry; a name
\* in one of them only yields no report and no error, and every name in both
\* is processed.
C7_ReportsForIntersection ==
  MappingShown(uploaded) =>
    /\ SeqSet(page.built) = NamesInFile \cap RegistryNames(employees)
    /\ page.outcome # "exception"

\* the file cannot be read, has fewer than three columns, or shares no
\* technician with the registry
UploadInError ==
  /\ uploaded.present
  /\ \/ ~uploaded.readable
     \/ Len(uploaded.df.cols) < MinColumns
     \/ NamesInFile \cap RegistryNames(employees) = {}

\* C8: when the file is unreadable, has fewer than 3 columns or has no
\* technician in common with the registry, the run halts before any report
\* is built and no archive is offered; another file and mapping still
\* generate the archive afterwards.
C8_ErrorsHalt ==
  UploadInError =>
    /\ page.outcome \in {"read_error", "shape_error", "no_match"}
    /\ page.built = <<>>
    /\ page.archive = <<>>
    /\ page.export_count = 0
    /\ \E f \in Files :
         /\ MappingShown(f)
         /\ Render(employees, f, DefaultMapping(f.df.cols)).outcome = "download"

\* a readable file of three columns whose technicians are all unknown
C8_Witness ==
  /\ MappingShown(uploaded)
  /\ NamesInFile # {}
  /\ NamesInFile \cap RegistryNames(employees) = {}
  /\ page.outcome = "no_match"

\* C10: the archive holds one file per matched technician: the entry names
\* of two matched technicians differ, so the number of distinct entry names
\* is the number of matched technicians and the count reported.
C10_OneFilePerTechnician ==
  page.outcome = "download" =>
    /\ Cardinality({page.archive[i].name : i \in 1..Len(page.archive)})
         = Len(page.matched)
    /\ Len(page.matched) = page.export_count

====
